---- MODULE Spec2Model ----
(***************************************************************************)
(* Invocation / streaming core of HuggingFaceEndpoint                      *)
(* (langchain_huggingface/llms/huggingface_endpoint.py).                   *)
(*                                                                         *)
(* A text is a sequence of one-character strings.  A Python Optional is a  *)
(* sequence of length 0 (None) or 1 (the value).  A keyword mapping is a   *)
(* function whose domain is the set of keys it holds.                      *)
(***************************************************************************)
EXTENDS Integers, Sequences, FiniteSets, TLC

\* ------------------------------------------------------------- bounds
\* Largest number of fragments the upstream delivers for one stream request.
MaxFrags == 2
\* Largest length of the runtime stop list a caller passes.
MaxRuntimeStops == 1
\* Largest length of the configured stop_sequences.
MaxBaseStops == 1
\* Largest number of calls begun on one client.
MaxCalls == 2

\* ------------------------------------------------------------- input domains
SeqsUpTo(S, n) == UNION {[1..k -> S] : k \in 0..n}

\* Texts a single upstream fragment may carry (the empty fragment included).
FragmentTexts ==
  {<<>>, <<"a">>, <<"b">>, <<"a", "b">>, <<"a", "a">>}

\* Stop strings (non-empty, as the scanner's contract requires).
StopStrings == {<<"a">>, <<"b">>, <<"a", "b">>}

\* stop_sequences values of the configurations explored.
BaseStopLists == SeqsUpTo(StopStrings, MaxBaseStops)

\* ------------------------------------------------------------- Python values
None == <<>>
Some(x) == <<x>>

EmptyMap == [k \in {} |-> None]

\* {**a, **b}
DictMerge(a, b) ==
  [k \in (DOMAIN a) \cup (DOMAIN b) |-> IF k \in DOMAIN b THEN b[k] ELSE a[k]]

\* the mapping a without the key k
DictWithout(a, k) == [j \in (DOMAIN a) \ {k} |-> a[j]]

\* a with a[k] set to v (k added when absent)
DictSet(a, k, v) == [j \in (DOMAIN a) \cup {k} |-> IF j = k THEN v ELSE a[j]]

\* ------------------------------------------------------------- str operations
\* s occurs in t at 0-based offset i
OccursAt(s, t, i) ==
  /\ i + Len(s) <= Len(t)
  /\ \A k \in 1..Len(s) : t[i + k] = s[k]

\* Python: s in t
Contains(t, s) == \E i \in 0..(Len(t) - Len(s)) : OccursAt(s, t, i)

\* Python: t.index(s), for s in t
Index(t, s) ==
  CHOOSE i \in 0..(Len(t) - Len(s)) :
    /\ OccursAt(s, t, i)
    /\ \A j \in 0..(i - 1) : ~OccursAt(s, t, j)

\* Python: t[:n], 0 <= n
Take(t, n) == SubSeq(t, 1, IF n < Len(t) THEN n ELSE Len(t))

\* Python: t[-n:], 0 <= n
LastSlice(t, n) ==
  IF n = 0 \/ n >= Len(t) THEN t ELSE SubSeq(t, Len(t) - n + 1, Len(t))

\* Python: t[:-n], 0 <= n
DropLastSlice(t, n) ==
  IF n = 0 \/ n >= Len(t) THEN <<>> ELSE SubSeq(t, 1, Len(t) - n)

RECURSIVE Concat(_)
Concat(ts) == IF ts = <<>> THEN <<>> ELSE Head(ts) \o Concat(Tail(ts))

\* Python truthiness of an Optional[str]
Truthy(o) == o # None /\ o[1] # <<>>

\* ------------------------------------------------------------- state
VARIABLES
  stop_sequences,     \* config: base stop strings (field stop_sequences)
  model_kwargs,       \* config: extra parameters (field model_kwargs)
  streaming,          \* config: field streaming
  op,                 \* the public operation the caller invoked
  stop,               \* the caller's runtime stop list (Optional)
  kwargs,             \* the caller's keyword overrides
  run_manager,        \* TRUE when an observer is passed
  upstream,           \* the fragments the transport has for a stream request;
                      \* their concatenation is its non-streaming response
  pc,                 \* control position of the call
  gen_args,           \* Optional: arguments _call/_acall handed to the decoder
  invocation_params,  \* Optional: parameters of the frame talking to the transport
  requests,           \* requests handed to the transport, in order
  pos,                \* number of fragments fetched from the upstream
  stop_seq_found,     \* decoder local (Optional[str])
  text,               \* decoder local: text to yield for the current fragment
  yielded,            \* texts of the chunks yielded by the decoder, in order
  tokens,             \* texts passed to run_manager.on_llm_new_token, in order
  completion,         \* _call/_acall local: concatenation of the chunks so far
  result,             \* Optional: text returned by _call/_acall
  upstream_state,     \* "none", "open", "exhausted", "closed" or "failed"
  releases,           \* number of times the upstream stream was released
  transport_error,    \* Optional: the error the transport raised during the call
  raised,             \* Optional: the error that left the operation
  parked,             \* the frame of the other call in progress on the client
  calls               \* number of calls begun on the client

config == <<stop_sequences, model_kwargs, streaming>>
call_args == <<op, stop, kwargs, run_manager, upstream>>
locals == <<stop_seq_found, text>>
errors == <<transport_error, raised>>
client == <<parked, calls>>
vars == <<stop_sequences, model_kwargs, streaming, op, stop, kwargs, run_manager,
          upstream, pc, gen_args, invocation_params, requests, pos,
          stop_seq_found, text, yielded, tokens, completion, result,
          upstream_state, releases, transport_error, raised, parked, calls>>

\* The frame of a call: its arguments, its control position and its locals.
Frame ==
  [op |-> op, stop |-> stop, kwargs |-> kwargs, run_manager |-> run_manager,
   upstream |-> upstream, pc |-> pc, gen_args |-> gen_args,
   invocation_params |-> invocation_params, requests |-> requests, pos |-> pos,
   stop_seq_found |-> stop_seq_found, text |-> text, yielded |-> yielded,
   tokens |-> tokens, completion |-> completion, result |-> result,
   upstream_state |-> upstream_state, releases |-> releases,
   transport_error |-> transport_error, raised |-> raised]

\* No call: the client has been constructed and nothing runs on it.
IdleFrame ==
  [op |-> "none", stop |-> None, kwargs |-> EmptyMap, run_manager |-> FALSE,
   upstream |-> <<>>, pc |-> "idle", gen_args |-> None,
   invocation_params |-> None, requests |-> <<>>, pos |-> 0,
   stop_seq_found |-> None, text |-> <<>>, yielded |-> <<>>,
   tokens |-> <<>>, completion |-> <<>>, result |-> None,
   upstream_state |-> "none", releases |-> 0,
   transport_error |-> None, raised |-> None]

CallOps == {"_call", "_acall"}
StreamOps == {"_stream", "_astream"}
AsyncOps == {"_acall", "_astream"}

\* ------------------------------------------------------------- parameter merge
\* _default_params: the configured fields, then model_kwargs spread on top.
\* The nine further fields of the mapping are copied like temperature.
DefaultParams ==
  DictMerge(
    [k \in {"max_new_tokens", "temperature", "stop"} |->
       CASE k = "max_new_tokens" -> "512"
         [] k = "temperature" -> "0.8"
         [] k = "stop" -> stop_sequences],
    model_kwargs)

\* runtime_stop or []
OrEmpty(runtime_stop) == IF runtime_stop = None THEN <<>> ELSE runtime_stop[1]

\* _invocation_params(runtime_stop, **kw)
InvocationParams(runtime_stop, kw) ==
  LET params == DictMerge(DefaultParams, kw)
  IN DictSet(params, "stop", params["stop"] \o OrEmpty(runtime_stop))

\* Variant: params["stop"] += runtime_stop or [] extends the list the entry
\* refers to, which is the field's own list when no "stop" entry of model_kwargs
\* or of the overrides has replaced it.
ExtendedInPlace(runtime_stop, kw) ==
  IF "stop" \in DOMAIN model_kwargs \cup DOMAIN kw THEN stop_sequences
  ELSE stop_sequences \o OrEmpty(runtime_stop)

\* The field stop_sequences after the merge: params["stop"] refers to the
\* field's list, and params["stop"] + (runtime_stop or []) builds a new list
\* without touching its operands.
StopSequencesAfterMerge(runtime_stop, kw) == stop_sequences

\* ------------------------------------------------------------- scanner
\* for stop_seq in stops: if stop_seq in response: stop_seq_found = stop_seq
RECURSIVE ScanFrom(_, _, _, _)
ScanFrom(stops, response, i, found) ==
  IF i > Len(stops) THEN found
  ELSE ScanFrom(stops, response, i + 1,
                IF Contains(response, stops[i]) THEN Some(stops[i]) ELSE found)

\* Variant: the first listed entry that occurs wins (the loop stops at a match).
RECURSIVE ScanFirst(_, _, _)
ScanFirst(stops, response, i) ==
  IF i > Len(stops) THEN None
  ELSE IF Contains(response, stops[i]) THEN Some(stops[i])
       ELSE ScanFirst(stops, response, i + 1)

FirstStopSeqFound(stops, response) == ScanFirst(stops, response, 1)

StopSeqFound(stops, response) == ScanFrom(stops, response, 1, None)

\* Variant: the slice runs through the stop sequence instead of ending before it.
TextThroughStop(response, found) ==
  IF Truthy(found)
  THEN Take(response, Index(response, found[1]) + Len(found[1]))
  ELSE response

\* text = response[: response.index(stop_seq_found)] if stop_seq_found else response
TextToYield(response, found) ==
  IF Truthy(found) THEN Take(response, Index(response, found[1])) ELSE response

\* Variant: the loop has no break.
NeverBreaks(found) == FALSE

\* if stop_seq_found: break
BreaksAfter(found) == Truthy(found)

\* ------------------------------------------------------------- scanner of _astream
\* for stop_seq in stops: if stop_seq in response: stop_seq_found = stop_seq
RECURSIVE AsyncScanFrom(_, _, _, _)
AsyncScanFrom(stops, response, i, found) ==
  IF i > Len(stops) THEN found
  ELSE AsyncScanFrom(stops, response, i + 1,
                     IF Contains(response, stops[i]) THEN Some(stops[i]) ELSE found)

AsyncStopSeqFound(stops, response) == AsyncScanFrom(stops, response, 1, None)

\* text = response[: response.index(stop_seq_found)] if stop_seq_found else response
AsyncTextToYield(response, found) ==
  IF Truthy(found) THEN Take(response, Index(response, found[1])) ELSE response

\* if stop_seq_found: break
AsyncBreaksAfter(found) == Truthy(found)

\* The loop body that runs is the one of the operation called: _call drives
\* _stream, _acall drives _astream.
FoundBy(stops, response) ==
  IF op \in AsyncOps THEN AsyncStopSeqFound(stops, response)
  ELSE StopSeqFound(stops, response)

TextBy(response, found) ==
  IF op \in AsyncOps THEN AsyncTextToYield(response, found)
  ELSE TextToYield(response, found)

BreaksBy(found) ==
  IF op \in AsyncOps THEN AsyncBreaksAfter(found) ELSE BreaksAfter(found)

\* ------------------------------------------------------------- trailing trim
\* for stop_seq in stops:
\*     if response_text[-len(stop_seq):] == stop_seq:
\*         response_text = response_text[: -len(stop_seq)]
RECURSIVE TrimFrom(_, _, _)
TrimFrom(response_text, stops, i) ==
  IF i > Len(stops) THEN response_text
  ELSE TrimFrom(IF LastSlice(response_text, Len(stops[i])) = stops[i]
                THEN DropLastSlice(response_text, Len(stops[i]))
                ELSE response_text,
                stops, i + 1)

\* Variant: the walk ends at the first sequence it removes.
RECURSIVE TrimFirstFrom(_, _, _)
TrimFirstFrom(response_text, stops, i) ==
  IF i > Len(stops) THEN response_text
  ELSE IF LastSlice(response_text, Len(stops[i])) = stops[i]
       THEN DropLastSlice(response_text, Len(stops[i]))
       ELSE TrimFirstFrom(response_text, stops, i + 1)

TrimFirstMatch(response_text, stops) == TrimFirstFrom(response_text, stops, 1)

\* Variant: the response is returned as it came.
TrimNothing(response_text, stops) == response_text

TrimTrailing(response_text, stops) == TrimFrom(response_text, stops, 1)

\* The same loop at the end of _acall.
RECURSIVE AsyncTrimFrom(_, _, _)
AsyncTrimFrom(response_text, stops, i) ==
  IF i > Len(stops) THEN response_text
  ELSE AsyncTrimFrom(IF LastSlice(response_text, Len(stops[i])) = stops[i]
                     THEN DropLastSlice(response_text, Len(stops[i]))
                     ELSE response_text,
                     stops, i + 1)

AsyncTrimTrailing(response_text, stops) == AsyncTrimFrom(response_text, stops, 1)

TrimBy(response_text, stops) ==
  IF op \in AsyncOps THEN AsyncTrimTrailing(response_text, stops)
  ELSE TrimTrailing(response_text, stops)

\* ------------------------------------------------------------- operations
\* Variant: the completion that drove the decoder trims its text as the
\* non-streaming branch does.
FinishTrimmed ==
  IF op \in CallOps
  THEN /\ pc' = "returned"
       /\ result' = Some(TrimTrailing(completion, invocation_params[1]["stop"]))
  ELSE pc' = "done" /\ UNCHANGED result

\* The decoder's generator, or the completion that drives it, has finished.
Finish ==
  IF op \in CallOps
  THEN pc' = "returned" /\ result' = Some(completion)
  ELSE pc' = "done" /\ UNCHANGED result

\* _call / _acall with streaming off: merge, one generate request.
CallGenerate ==
  /\ pc = "start" /\ op \in CallOps /\ ~streaming
  /\ LET ip == InvocationParams(stop, kwargs)
     IN /\ invocation_params' = Some(ip)
        /\ requests' = Append(requests, [stream |-> FALSE, params |-> ip])
  /\ stop_sequences' = StopSequencesAfterMerge(stop, kwargs)
  /\ pc' = "await"
  /\ UNCHANGED <<model_kwargs, streaming, call_args, client, errors, gen_args,
                 pos, locals, yielded, tokens, completion, result,
                 upstream_state, releases>>

\* _call / _acall with streaming off: the response arrives, is trimmed, returned.
ReceiveResponse ==
  /\ pc = "await"
  /\ result' = Some(TrimBy(Concat(upstream), invocation_params[1]["stop"]))
  /\ pc' = "returned"
  /\ UNCHANGED <<config, call_args, client, errors, gen_args,
                 invocation_params, requests, pos, locals, yielded, tokens,
                 completion, upstream_state, releases>>

\* _call / _acall with streaming on: merge, then
\* self._stream(prompt, run_manager=run_manager, **invocation_params).
CallStreaming ==
  /\ pc = "start" /\ op \in CallOps /\ streaming
  /\ LET ip == InvocationParams(stop, kwargs)
     IN gen_args' = Some([stop |-> Some(ip["stop"]),
                          kwargs |-> DictWithout(ip, "stop")])
  /\ stop_sequences' = StopSequencesAfterMerge(stop, kwargs)
  /\ pc' = "gen_start"
  /\ UNCHANGED <<model_kwargs, streaming, call_args, client, errors,
                 invocation_params, requests, pos, locals, yielded, tokens,
                 completion, result, upstream_state, releases>>

\* _stream / _astream up to the first fetch: merge, one stream request.
StreamStart ==
  /\ pc = (IF op \in StreamOps THEN "start" ELSE "gen_start")
  /\ LET a == IF op \in CallOps THEN gen_args[1]
              ELSE [stop |-> stop, kwargs |-> kwargs]
         ip == InvocationParams(a.stop, a.kwargs)
     IN /\ invocation_params' = Some(ip)
        /\ requests' = Append(requests, [stream |-> TRUE, params |-> ip])
        /\ stop_sequences' = StopSequencesAfterMerge(a.stop, a.kwargs)
  /\ upstream_state' = "open"
  /\ pc' = "next"
  /\ UNCHANGED <<model_kwargs, streaming, call_args, client, errors, gen_args,
                 pos, locals, yielded, tokens, completion, result, releases>>

\* Variant: the chunk is built whatever the text (no "if text:").
FetchFragmentUnguarded ==
  /\ pc = "next" /\ pos < Len(upstream)
  /\ LET response == upstream[pos + 1]
         found == FoundBy(invocation_params[1]["stop"], response)
     IN /\ pos' = pos + 1
        /\ stop_seq_found' = found
        /\ text' = TextBy(response, found)
        /\ pc' = (IF run_manager THEN "chunk" ELSE "yield")
  /\ UNCHANGED <<config, call_args, client, errors, gen_args,
                 invocation_params, requests, yielded, tokens, completion,
                 result, upstream_state, releases>>

\* One pass of the loop body up to the chunk: next fragment, scan, text.
FetchFragment ==
  /\ pc = "next" /\ pos < Len(upstream)
  /\ LET response == upstream[pos + 1]
         found == FoundBy(invocation_params[1]["stop"], response)
         t == TextBy(response, found)
     IN /\ pos' = pos + 1
        /\ stop_seq_found' = found
        /\ text' = t
        /\ IF t # <<>>
           THEN pc' = (IF run_manager THEN "chunk" ELSE "yield") /\ UNCHANGED result
           ELSE IF BreaksBy(found)
                THEN Finish
                ELSE pc' = "next" /\ UNCHANGED result
  /\ UNCHANGED <<config, call_args, client, errors, gen_args,
                 invocation_params, requests, yielded, tokens, completion,
                 upstream_state, releases>>

\* The transport has no further fragment: the loop ends.
Exhausted ==
  /\ pc = "next" /\ pos = Len(upstream)
  /\ upstream_state' = "exhausted"
  /\ releases' = releases + 1
  /\ Finish
  /\ UNCHANGED <<config, call_args, client, errors, gen_args,
                 invocation_params, requests, pos, locals, yielded, tokens,
                 completion>>

\* Variant: the observer is handed the raw fragment instead of the chunk's text.
NotifyRaw ==
  /\ pc = "chunk"
  /\ tokens' = Append(tokens, upstream[pos])
  /\ pc' = "yield"
  /\ UNCHANGED <<config, call_args, client, errors, gen_args,
                 invocation_params, requests, pos, locals, yielded,
                 completion, result, upstream_state, releases>>

\* run_manager.on_llm_new_token(chunk.text)
Notify ==
  /\ pc = "chunk"
  /\ tokens' = Append(tokens, text)
  /\ pc' = "yield"
  /\ UNCHANGED <<config, call_args, client, errors, gen_args,
                 invocation_params, requests, pos, locals, yielded,
                 completion, result, upstream_state, releases>>

\* Variant: the chunk is put in front of the earlier ones.
YieldPrepend ==
  /\ pc = "yield"
  /\ yielded' = <<text>> \o yielded
  /\ completion' = IF op \in CallOps THEN text \o completion ELSE completion
  /\ pc' = "suspended"
  /\ UNCHANGED <<config, call_args, client, errors, gen_args,
                 invocation_params, requests, pos, locals, tokens, result,
                 upstream_state, releases>>

\* yield chunk (in _call / _acall the loop body runs: completion += chunk.text)
Yield ==
  /\ pc = "yield"
  /\ yielded' = Append(yielded, text)
  /\ completion' = IF op \in CallOps THEN completion \o text ELSE completion
  /\ pc' = "suspended"
  /\ UNCHANGED <<config, call_args, client, errors, gen_args,
                 invocation_params, requests, pos, locals, tokens, result,
                 upstream_state, releases>>

\* The consumer asks for the next chunk: the loop body ends with the break test.
Resume ==
  /\ pc = "suspended"
  /\ IF BreaksBy(stop_seq_found)
     THEN Finish
     ELSE pc' = "next" /\ UNCHANGED result
  /\ UNCHANGED <<config, call_args, client, errors, gen_args,
                 invocation_params, requests, pos, locals, yielded, tokens,
                 completion, upstream_state, releases>>

\* The consumer of a stream stops iterating.
Cancel ==
  /\ pc = "suspended" /\ op \in StreamOps
  /\ pc' = "cancelled"
  /\ UNCHANGED <<config, call_args, client, errors, gen_args,
                 invocation_params, requests, pos, locals, yielded, tokens,
                 completion, result, upstream_state, releases>>

\* The decoder never closes the upstream iterator; after a break or an abandoned
\* generator the runtime may reclaim it, at a time it chooses, or never.
Finalize ==
  /\ upstream_state = "open"
  /\ pc \in {"done", "returned", "cancelled"}
  /\ upstream_state' = "closed"
  /\ releases' = releases + 1
  /\ UNCHANGED <<config, call_args, client, errors, pc, gen_args,
                 invocation_params, requests, pos, locals, yielded, tokens,
                 completion, result>>

\* ------------------------------------------------------------- transport errors
\* The errors the transport may raise. No operation has a try, except or
\* finally clause: an error raised by text_generation, or by the iterator it
\* returned, leaves every frame on the stack as it is.
TransportErrors == {"HfHubHTTPError", "TimeoutError"}

\* _call / _acall with streaming off: text_generation raises instead of
\* returning the response.
GenerateFails ==
  /\ pc = "await"
  /\ \E e \in TransportErrors :
       transport_error' = Some(e) /\ raised' = Some(e)
  /\ pc' = "failed"
  /\ UNCHANGED <<config, call_args, client, gen_args, invocation_params,
                 requests, pos, locals, yielded, tokens, completion, result,
                 upstream_state, releases>>

\* _stream / _astream: the merge is done, the stream request raises.
StreamRequestFails ==
  /\ pc = (IF op \in StreamOps THEN "start" ELSE "gen_start")
  /\ LET a == IF op \in CallOps THEN gen_args[1]
              ELSE [stop |-> stop, kwargs |-> kwargs]
         ip == InvocationParams(a.stop, a.kwargs)
     IN /\ invocation_params' = Some(ip)
        /\ requests' = Append(requests, [stream |-> TRUE, params |-> ip])
        /\ stop_sequences' = StopSequencesAfterMerge(a.stop, a.kwargs)
  /\ \E e \in TransportErrors :
       transport_error' = Some(e) /\ raised' = Some(e)
  /\ pc' = "failed"
  /\ UNCHANGED <<model_kwargs, streaming, call_args, client, gen_args, pos,
                 locals, yielded, tokens, completion, result, upstream_state,
                 releases>>

\* Variant: the decoder answers an error of the iterator with a second stream
\* request.
FetchFailsRetried ==
  /\ pc = "next" /\ Len(requests) < 2
  /\ requests' = Append(requests, requests[1])
  /\ UNCHANGED <<config, call_args, client, errors, pc, gen_args,
                 invocation_params, pos, locals, yielded, tokens, completion,
                 result, upstream_state, releases>>

\* Variant: the decoder treats an error of the iterator as the end of the
\* stream.
FetchFailsSwallowed ==
  /\ pc = "next"
  /\ \E e \in TransportErrors : transport_error' = Some(e)
  /\ upstream_state' = "failed"
  /\ Finish
  /\ UNCHANGED <<config, call_args, client, raised, gen_args,
                 invocation_params, requests, pos, locals, yielded, tokens,
                 completion, releases>>

\* The iterator raises while the loop asks it for the next fragment; in
\* _call / _acall the error passes through the loop over the chunks, so that
\* return completion is not reached.
FetchFails ==
  /\ pc = "next"
  /\ \E e \in TransportErrors :
       transport_error' = Some(e) /\ raised' = Some(e)
  /\ upstream_state' = "failed"
  /\ pc' = "failed"
  /\ UNCHANGED <<config, call_args, client, gen_args, invocation_params,
                 requests, pos, locals, yielded, tokens, completion, result,
                 releases>>

\* ------------------------------------------------------------- specifications
Upstreams == SeqsUpTo(FragmentTexts, MaxFrags)
RuntimeStops == {Some(l) : l \in SeqsUpTo(StopStrings, MaxRuntimeStops)}

InitWith(bases, ops, flags, extras, overrides, runtime_stops, upstreams) ==
  /\ stop_sequences \in bases
  /\ model_kwargs \in extras
  /\ streaming \in flags
  /\ op \in ops
  /\ stop \in runtime_stops
  /\ kwargs \in overrides
  /\ run_manager \in BOOLEAN
  /\ upstream \in upstreams
  /\ pc = "start"
  /\ gen_args = None
  /\ invocation_params = None
  /\ requests = <<>>
  /\ pos = 0
  /\ stop_seq_found = None
  /\ text = <<>>
  /\ yielded = <<>>
  /\ tokens = <<>>
  /\ completion = <<>>
  /\ result = None
  /\ upstream_state = "none"
  /\ releases = 0
  /\ transport_error = None
  /\ raised = None
  /\ parked = IdleFrame
  /\ calls = 1

\* The streaming decoder, called directly.
InitStream ==
  InitWith(BaseStopLists, StreamOps, {FALSE}, {EmptyMap}, {EmptyMap}, RuntimeStops, Upstreams)

NextStream ==
  \/ StreamStart
  \/ FetchFragment
  \/ Exhausted
  \/ Notify
  \/ Yield
  \/ Resume
  \/ Cancel
  \/ Finalize

SpecStream == InitStream /\ [][NextStream]_vars

\* _invocation_params applied on its own to the caller's arguments.
MergeParams ==
  /\ pc = "start"
  /\ invocation_params' = Some(InvocationParams(stop, kwargs))
  /\ stop_sequences' = StopSequencesAfterMerge(stop, kwargs)
  /\ pc' = "merged"
  /\ UNCHANGED <<model_kwargs, streaming, call_args, client, errors, gen_args,
                 requests, pos, locals, yielded, tokens, completion, result,
                 upstream_state, releases>>

\* model_kwargs values: keys that are no declared field (build_extra rejects the
\* declared ones); "stop" is such a key.
PlainExtras == {EmptyMap, [k \in {"best_of"} |-> "2"]}
StopExtras ==
  {[k \in {"stop"} |-> l] : l \in SeqsUpTo(StopStrings, MaxBaseStops)}

\* Keyword overrides of a call: "stop" is bound to the named parameter, so the
\* mapping never holds it.
Overrides == {EmptyMap, [k \in {"temperature"} |-> "0.1"]}

InitParams ==
  InitWith(BaseStopLists, {"_call"}, BOOLEAN, PlainExtras \cup StopExtras,
           Overrides, RuntimeStops \cup {None}, {<<>>})

NextParams == MergeParams

SpecParams == InitParams /\ [][NextParams]_vars

\* The four public operations on one client.
Init ==
  InitWith(BaseStopLists, CallOps \cup StreamOps, BOOLEAN, PlainExtras,
           Overrides, RuntimeStops, Upstreams)

Next ==
  \/ CallGenerate
  \/ ReceiveResponse
  \/ CallStreaming
  \/ StreamStart
  \/ FetchFragment
  \/ Exhausted
  \/ Notify
  \/ Yield
  \/ Resume
  \/ Cancel
  \/ Finalize

Spec == Init /\ [][Next]_vars

\* The worked examples of the specification, on the four operations.
TheCat == <<"T", "h", "e", " ", "c", "a", "t", " ">>
SatOnStopTheMat == <<"s", "a", "t", " ", "o", "n", " ", "<", "S", "T", "O", "P", ">", " ", "t", "h", "e", " ", "m", "a", "t">>
SatOn == <<"s", "a", "t", " ", "o", "n", " ">>
StopMark == <<"<", "S", "T", "O", "P", ">">>
Foo == <<"f", "o", "o">>
Bar == <<"b", "a", "r">>
TieFragment == <<"x", "x", " ", "b", "a", "r", " ", "y", "y", " ", "f", "o", "o", " ", "z", "z">>
TiePrefixBar == <<"x", "x", " ">>
TiePrefixFoo == <<"x", "x", " ", "b", "a", "r", " ", "y", "y", " ">>

Examples ==
  {[base |-> <<>>, runtime |-> <<StopMark>>,
    frags |-> <<TheCat, SatOnStopTheMat>>],
   [base |-> <<Foo, Bar>>, runtime |-> <<>>, frags |-> <<TieFragment>>],
   [base |-> <<Foo>>, runtime |-> <<Bar>>, frags |-> <<TieFragment>>],
   [base |-> <<>>, runtime |-> <<Foo, Bar>>, frags |-> <<TieFragment>>],
   [base |-> <<>>, runtime |-> <<>>, frags |-> <<<<"a">>, <<"b">>, <<"c">>>>]}

InitExamples ==
  \E e \in Examples :
    InitWith({e.base}, CallOps \cup StreamOps, BOOLEAN, {EmptyMap}, {EmptyMap},
             {Some(e.runtime)}, {e.frags})

SpecExamples == InitExamples /\ [][Next]_vars

\* A completion call (_call / _acall) on its own, streaming configured or not,
\* with model_kwargs that may carry a "stop" entry of their own.
HelloWorld == <<"H", "e", "l", "l", "o", " ", "w", "o", "r", "l", "d">>
EndMark == <<"<", "|", "e", "n", "d", "|", ">">>

CompletionExtras == {EmptyMap, [k \in {"stop"} |-> <<<<"b">>>>]}

InitCompletion ==
  \/ InitWith(BaseStopLists, CallOps, BOOLEAN, CompletionExtras, Overrides,
              RuntimeStops, Upstreams)
  \/ InitWith({<<EndMark>>}, CallOps, {FALSE}, {EmptyMap}, {EmptyMap},
              {Some(<<>>)}, {<<HelloWorld \o EndMark>>})

NextCompletion ==
  \/ CallGenerate
  \/ ReceiveResponse
  \/ CallStreaming
  \/ StreamStart
  \/ FetchFragment
  \/ Exhausted
  \/ Notify
  \/ Yield
  \/ Resume
  \/ Finalize

SpecCompletion == InitCompletion /\ [][NextCompletion]_vars

\* The synchronous and the asynchronous variant of each operation, on the same
\* inputs.
InitVariants ==
  InitWith(BaseStopLists, CallOps \cup StreamOps, BOOLEAN, {EmptyMap},
           {EmptyMap}, RuntimeStops, Upstreams)

SpecVariants == InitVariants /\ [][Next]_vars

\* ------------------------------------------------------------- calls on one client
\* The frame f becomes the frame the operations act on.
Load(f) ==
  /\ op' = f.op
  /\ stop' = f.stop
  /\ kwargs' = f.kwargs
  /\ run_manager' = f.run_manager
  /\ upstream' = f.upstream
  /\ pc' = f.pc
  /\ gen_args' = f.gen_args
  /\ invocation_params' = f.invocation_params
  /\ requests' = f.requests
  /\ pos' = f.pos
  /\ stop_seq_found' = f.stop_seq_found
  /\ text' = f.text
  /\ yielded' = f.yielded
  /\ tokens' = f.tokens
  /\ completion' = f.completion
  /\ result' = f.result
  /\ upstream_state' = f.upstream_state
  /\ releases' = f.releases
  /\ transport_error' = f.transport_error
  /\ raised' = f.raised

\* Arguments of the calls made on one client.
ClientStops == {Some(<<>>), Some(<<<<"a">>>>), Some(<<<<"b">>>>)}
ClientUpstreams == {<<<<"a", "b">>, <<"a">>>>}

\* A caller invokes one of the four operations on the client, where no call
\* runs or the last one is over.
BeginCall ==
  /\ pc \in {"idle", "done", "returned", "cancelled"}
  /\ calls < MaxCalls
  /\ calls' = calls + 1
  /\ \E o \in CallOps \cup StreamOps, s \in ClientStops, kw \in Overrides,
        u \in ClientUpstreams :
       Load([IdleFrame EXCEPT !.op = o, !.stop = s, !.kwargs = kw,
                              !.run_manager = TRUE, !.upstream = u,
                              !.pc = "start"])
  /\ UNCHANGED <<config, parked>>

\* Control passes from the call in progress to the other one on the client
\* (another thread, another task of the event loop, or the consumer of a
\* suspended generator calling the client again).
SwitchCall ==
  /\ Load(parked)
  /\ parked' = Frame
  /\ UNCHANGED <<config, calls>>

\* Calls made one after the other and interleaved on one client.
ClientBases == {<<>>, <<<<"b">>>>}

InitClient ==
  /\ stop_sequences \in ClientBases
  /\ model_kwargs = EmptyMap
  /\ streaming \in BOOLEAN
  /\ op = IdleFrame.op
  /\ stop = IdleFrame.stop
  /\ kwargs = IdleFrame.kwargs
  /\ run_manager = IdleFrame.run_manager
  /\ upstream = IdleFrame.upstream
  /\ pc = IdleFrame.pc
  /\ gen_args = IdleFrame.gen_args
  /\ invocation_params = IdleFrame.invocation_params
  /\ requests = IdleFrame.requests
  /\ pos = IdleFrame.pos
  /\ stop_seq_found = IdleFrame.stop_seq_found
  /\ text = IdleFrame.text
  /\ yielded = IdleFrame.yielded
  /\ tokens = IdleFrame.tokens
  /\ completion = IdleFrame.completion
  /\ result = IdleFrame.result
  /\ upstream_state = IdleFrame.upstream_state
  /\ releases = IdleFrame.releases
  /\ transport_error = IdleFrame.transport_error
  /\ raised = IdleFrame.raised
  /\ parked = IdleFrame
  /\ calls = 0

NextClient ==
  \/ BeginCall
  \/ SwitchCall
  \/ Next

SpecClient == InitClient /\ [][NextClient]_vars

\* The four operations over a transport that may raise.
NextFaulty ==
  \/ Next
  \/ GenerateFails
  \/ StreamRequestFails
  \/ FetchFails

SpecFaulty == InitVariants /\ [][NextFaulty]_vars

\* ------------------------------------------------------------- properties
\* Vocabulary of the properties, stated on texts and not on the scanner's code.
Offsets(s, t) == {i \in 0..(Len(t) - Len(s)) : OccursAt(s, t, i)}
Occurs(s, t) == Offsets(s, t) # {}
MinOf(S) == CHOOSE x \in S : \A y \in S : x <= y
MaxOf(S) == CHOOSE x \in S : \A y \in S : x >= y
Prefix(t, n) == SubSeq(t, 1, n)

\* The merged stop list of the frame that talks to the transport.
Merged == invocation_params[1]["stop"]
Requested == invocation_params # None /\ requests # <<>>
RuntimeStop == IF stop = None THEN <<>> ELSE stop[1]

\* Indices of the merged stop list whose entry occurs in t.
OccurringIn(t) == {i \in 1..Len(Merged) : Occurs(Merged[i], t)}
AnyStopIn(t) == OccurringIn(t) # {}

\* The decoder is inside the loop body for fragment pos.
InBody == pc \in {"chunk", "yield", "suspended"}
Ended == pc \in {"done", "returned"}

\* A fragment holding a stop sequence has been processed to the end of the body.
StopFragmentProcessed ==
  /\ Requested
  /\ \E i \in 1..pos : AnyStopIn(upstream[i]) /\ (i < pos \/ ~InBody)

\* C1: once a fragment in which a configured stop sequence occurs has been
\* processed, no further fragment is requested from the transport, no further
\* chunk is emitted and the observer is not called again, whatever the upstream
\* still holds.
C1_StopIsTerminal ==
  [][StopFragmentProcessed =>
       /\ pos' = pos
       /\ requests' = requests
       /\ yielded' = yielded
       /\ tokens' = tokens]_vars

\* C1 witness: the stream ended at a stop fragment after emitting its prefix,
\* with fragments left in the upstream.
C1_Witness ==
  /\ pc = "done"
  /\ StopFragmentProcessed
  /\ pos = 1 /\ Len(upstream) = 2 /\ upstream[2] # <<>>
  /\ Len(yielded) = 1
  /\ yielded[1] # upstream[1]

\* C2: for a fragment that holds a configured stop sequence, the emitted text is
\* the prefix of the fragment before the earliest offset at which any configured
\* stop sequence occurs, and no emitted chunk holds a configured stop sequence.
C2_TruncatesAtEarliestStop ==
  (Requested /\ pos > 0) =>
    /\ AnyStopIn(upstream[pos]) =>
         text = Prefix(upstream[pos],
                       MinOf(UNION {Offsets(Merged[i], upstream[pos]) :
                                      i \in OccurringIn(upstream[pos])}))
    /\ \A j \in 1..Len(yielded) : ~AnyStopIn(yielded[j])

\* C3: when several entries of the merged stop list occur in a fragment, the
\* selected match is the one that comes last in the list, wherever each occurs
\* in the text, and the emitted text is the prefix of the fragment before the
\* first occurrence of the selected entry.
C3_LastListedStopWins ==
  (Requested /\ pos > 0 /\ AnyStopIn(upstream[pos])) =>
    LET chosen == Merged[MaxOf(OccurringIn(upstream[pos]))]
    IN /\ stop_seq_found = Some(chosen)
       /\ text = Prefix(upstream[pos], MinOf(Offsets(chosen, upstream[pos])))

\* C3 witness: two different entries occur in the fragment and the selected one
\* starts later in the text than the other.
C3_Witness ==
  /\ Requested /\ pos > 0
  /\ \E i, j \in OccurringIn(upstream[pos]) :
       /\ i < j /\ j = MaxOf(OccurringIn(upstream[pos]))
       /\ Merged[i] # Merged[j]
       /\ MinOf(Offsets(Merged[i], upstream[pos]))
            < MinOf(Offsets(Merged[j], upstream[pos]))
  /\ stop_seq_found = Some(Merged[MaxOf(OccurringIn(upstream[pos]))])
  /\ text # <<>>

\* The tie-break example: merged stop list <<"foo", "bar">>, one fragment.
TieExample == Requested /\ Merged = <<Foo, Bar>> /\ upstream = <<TieFragment>>

\* C4 as stated: on the tie-break example the scanner selects "foo" and the
\* decoder emits "xx bar yy ".
C4_SelectsFoo ==
  (TieExample /\ pos = 1) =>
    /\ stop_seq_found = Some(Foo)
    /\ text = TiePrefixFoo

\* C4 amended: on the tie-break example the scanner selects "bar", the later
\* entry of the list, the decoder emits "xx " and then terminates.
C4_SelectsBar ==
  (TieExample /\ pos = 1) =>
    /\ stop_seq_found = Some(Bar)
    /\ text = TiePrefixBar
    /\ pc # "next"
    /\ yielded \in {<<>>, <<TiePrefixBar>>}
    /\ (pc \in {"suspended", "done", "returned", "cancelled"}
          => yielded = <<TiePrefixBar>>)

\* C4 witness: the example stream has ended after the one chunk "xx ".
C4_Witness ==
  /\ TieExample /\ pos = 1
  /\ pc = "done"
  /\ stop_seq_found = Some(Bar)
  /\ yielded = <<TiePrefixBar>>

\* C5: the stop entry of the merged parameters is stop_sequences followed by
\* runtime_stop, for every configuration, extras mapping and overrides mapping.
C5_MergedStopIsBaseThenRuntime ==
  pc = "merged" => Merged = stop_sequences \o RuntimeStop

\* C6: the stop list of every request handed to the transport is
\* stop_sequences followed by the call's runtime_stop.
C6_TransportStopIsBaseThenRuntime ==
  \A i \in 1..Len(requests) :
    requests[i].params["stop"] = stop_sequences \o RuntimeStop

\* Text before the first occurrence of s in t; t when s does not occur.
CutBefore(t, s) == IF Occurs(s, t) THEN Prefix(t, MinOf(Offsets(s, t))) ELSE t

\* Offset of fragment k in the concatenated upstream content.
FragStart(k) == Len(Concat(SubSeq(upstream, 1, k - 1)))

\* The first occurrence of s in the concatenated content lies within one
\* fragment (or s does not occur in the content).
FirstOccurrenceInOneFragment(s) ==
  LET content == Concat(upstream)
  IN Occurs(s, content) =>
       LET o == MinOf(Offsets(s, content))
       IN \E k \in 1..Len(upstream) :
            /\ FragStart(k) <= o
            /\ o + Len(s) <= FragStart(k) + Len(upstream[k])

\* A stream consumed to its end, with a merged stop list of one sequence.
OneStopStreamEnded == pc = "done" /\ Requested /\ Len(Merged) = 1

\* The text a non-streaming call returns for the content cut before s.
NonStreamingOnCut(s) ==
  TrimTrailing(CutBefore(Concat(upstream), s), <<s>>)

\* C7 as stated: the concatenated chunks of a stream with stop sequence S equal
\* the text of a non-streaming call on the content cut before the first S,
\* however the content is split into fragments.
C7_StreamEqualsCut ==
  OneStopStreamEnded => Concat(yielded) = NonStreamingOnCut(Merged[1])

\* C7 amended: the same, when the first occurrence of S in the content lies
\* within one fragment.
C7_StreamEqualsCutInsideFragment ==
  (OneStopStreamEnded /\ FirstOccurrenceInOneFragment(Merged[1])) =>
    Concat(yielded) = NonStreamingOnCut(Merged[1])

\* C7 witness: S occurs in the second of two fragments and the stream was cut.
C7_Witness ==
  /\ OneStopStreamEnded
  /\ FirstOccurrenceInOneFragment(Merged[1])
  /\ Len(upstream) = 2 /\ pos = 2
  /\ Occurs(Merged[1], upstream[2])
  /\ Len(yielded) = 2
  /\ Concat(yielded) # Concat(upstream)

\* No fragment of the upstream holds a configured stop sequence.
NoStopInAnyFragment ==
  Requested /\ \A i \in 1..Len(upstream) : ~AnyStopIn(upstream[i])

NonEmptyOf(ts) == SelectSeq(ts, LAMBDA t : t # <<>>)

\* Number of fragments whose processing has reached the consumer.
Delivered == IF pc \in {"chunk", "yield"} THEN pos - 1 ELSE pos

\* C8: when no single fragment holds a configured stop sequence, the chunks are
\* the non-empty fragments in the order received, one per fragment, and the
\* stream ends only at the exhaustion of the upstream with all content emitted.
C8_FragmentsPassThrough ==
  NoStopInAnyFragment =>
    /\ yielded = NonEmptyOf(SubSeq(upstream, 1, Delivered))
    /\ Ended => /\ pos = Len(upstream)
                /\ upstream_state = "exhausted"
                /\ Concat(yielded) = Concat(upstream)

\* C8 witness: a stop sequence split over the boundary of two fragments went
\* undetected and both fragments were emitted.
C8_Witness ==
  /\ NoStopInAnyFragment
  /\ pc = "done"
  /\ Len(upstream) = 2
  /\ \E i \in 1..Len(Merged) : Occurs(Merged[i], Concat(upstream))
  /\ yielded = upstream
  /\ upstream[1] # upstream[2]

\* C9: with an observer, the texts it received are the chunks yielded so far,
\* or those followed by the one chunk about to be yielded.
C9_ObserverBeforeConsumer ==
  (run_manager /\ op \in StreamOps) =>
    \/ tokens = yielded
    \/ pc = "yield" /\ tokens = Append(yielded, text)

\* C9 witness: the observer has the second chunk, cut at a stop sequence, which
\* the consumer has not yet.
C9_Witness ==
  /\ run_manager /\ op \in StreamOps
  /\ pc = "yield"
  /\ Len(yielded) = 1
  /\ tokens = Append(yielded, text)
  /\ text # upstream[pos]

\* C10: at every exit of a streaming call (exhaustion, stop match, consumer
\* stopping) the upstream stream has been released exactly once.
C10_ReleasedExactlyOnce ==
  /\ releases <= 1
  /\ (op \in StreamOps /\ pc \in {"done", "cancelled"}) => releases = 1

\* ------------------------------------------------------------- trailing trim
\* t ends with exactly s.
EndsWith(t, s) ==
  Len(s) <= Len(t) /\ \A k \in 1..Len(s) : t[Len(t) - Len(s) + k] = s[k]

\* t with one trailing s removed when t ends with s.
WithoutSuffix(t, s) == IF EndsWith(t, s) THEN Prefix(t, Len(t) - Len(s)) ELSE t

\* The walk over the first n entries of the list l, each applied to the text
\* the earlier entries have left.
RECURSIVE Walked(_, _, _)
Walked(t, l, n) == IF n = 0 THEN t ELSE WithoutSuffix(Walked(t, l, n - 1), l[n])

\* The response of the non-streaming request of the call.
Response == Concat(upstream)
NonStreamingReturned == pc = "returned" /\ ~streaming

\* C11: the text a non-streaming completion returns is the response after one
\* walk over the merged stop list in its configured order, each sequence being
\* removed from the end of the already trimmed text when that text ends with
\* exactly it; a response that ends with none of them is returned unchanged,
\* and "Hello world<|end|>" with the stop list ["<|end|>"] gives "Hello world".
C11_TrailingTrimWalksOnce ==
  NonStreamingReturned =>
    /\ result = Some(Walked(Response, Merged, Len(Merged)))
    /\ (\A i \in 1..Len(Merged) : ~EndsWith(Response, Merged[i]))
         => result = Some(Response)
    /\ (Response = HelloWorld \o EndMark /\ Merged = <<EndMark>>)
         => result = Some(HelloWorld)

\* Two sequences are removed one after the other, the second from the text the
\* first left; and the example of the text has been returned.
C11_Witness ==
  /\ NonStreamingReturned
  /\ Len(Merged) = 2 /\ Merged[1] # Merged[2]
  /\ Response = result[1] \o Merged[2] \o Merged[1]
  /\ ~EndsWith(Response, Merged[2])

C11_WitnessExample ==
  NonStreamingReturned /\ Response = HelloWorld \o EndMark /\ result = Some(HelloWorld)

\* ------------------------------------------------------------- one decoder run
\* The loop of _stream over the fragments frags with the merged list stops, run
\* to its end by a consumer that takes every chunk: the chunks in order, and the
\* number of fragments taken from the transport.
RECURSIVE RunFrom(_, _, _, _)
RunFrom(stops, frags, i, chunks) ==
  IF i > Len(frags) THEN [chunks |-> chunks, pos |-> Len(frags)]
  ELSE LET found == StopSeqFound(stops, frags[i])
           t == TextToYield(frags[i], found)
           cs == IF t # <<>> THEN Append(chunks, t) ELSE chunks
       IN IF BreaksAfter(found) THEN [chunks |-> cs, pos |-> i]
          ELSE RunFrom(stops, frags, i + 1, cs)

StreamRun(stops, frags) == RunFrom(stops, frags, 1, <<>>)

\* The streaming call made directly with the arguments of the call in progress.
DirectRun == StreamRun(InvocationParams(stop, kwargs)["stop"], upstream)
NotifiedBy(chunks) == IF run_manager THEN chunks ELSE <<>>

\* C12: with streaming configured, a completion call returns the concatenation,
\* in order, without separators and without trailing trim, of the chunks a
\* direct streaming call with the same runtime stop list and overrides emits
\* for the same fragments; it stops at the same fragment and hands the observer
\* the same texts in the same order.
C12_CompletionIsConcatOfDirectStream ==
  (op \in CallOps /\ streaming /\ pc = "returned") =>
    /\ result = Some(Concat(DirectRun.chunks))
    /\ pos = DirectRun.pos
    /\ tokens = NotifiedBy(DirectRun.chunks)

\* Two chunks have been concatenated; the list that reached the decoder is
\* longer than the direct call's, and the returned text ends with one of its
\* entries.
C12_Witness ==
  /\ op \in CallOps /\ streaming /\ pc = "returned" /\ run_manager
  /\ Len(yielded) = 2 /\ Len(tokens) = 2
  /\ Len(Merged) > Len(InvocationParams(stop, kwargs)["stop"])
  /\ \E i \in 1..Len(Merged) : EndsWith(result[1], Merged[i])

\* ------------------------------------------------------------- sync and async
\* What the synchronous code gives for the inputs of the call in progress:
\* the decoder run of _stream, and the trimmed response of _call.
IsPrefixOf(a, b) == Len(a) <= Len(b) /\ a = SubSeq(b, 1, Len(a))
SyncTrimmed == TrimTrailing(Response, InvocationParams(stop, kwargs)["stop"])
Decoding == op \in StreamOps \/ streaming

\* C13: the asynchronous variant of an operation gives, for the same
\* configuration, arguments and fragments, what the synchronous variant gives:
\* the same returned text, the same chunks in the same order, the same observer
\* texts, and the end at the same fragment. Both variants are held against the
\* outcome of the synchronous code, which does not depend on the variant.
C13_AsyncGivesSyncOutcome ==
  /\ Decoding =>
       /\ IsPrefixOf(yielded, DirectRun.chunks)
       /\ IsPrefixOf(tokens, NotifiedBy(DirectRun.chunks))
       /\ pos <= DirectRun.pos
  /\ (Decoding /\ Ended) =>
       /\ yielded = DirectRun.chunks
       /\ tokens = NotifiedBy(DirectRun.chunks)
       /\ pos = DirectRun.pos
       /\ op \in CallOps => result = Some(Concat(DirectRun.chunks))
  /\ (~Decoding /\ Ended) => result = Some(SyncTrimmed)

\* An asynchronous stream has ended after two chunks, the second cut at a stop
\* sequence.
C13_Witness ==
  /\ op = "_astream" /\ pc = "done" /\ run_manager
  /\ Len(yielded) = 2 /\ Truthy(stop_seq_found)
  /\ yielded[2] # upstream[2]

\* ------------------------------------------------------------- transport failure
Failed == transport_error # None

\* C14: an error the transport raises, when the request is issued or while the
\* next fragment is fetched, reaches the caller as that same error, and the
\* call is then in its terminal failed state: no chunk is emitted and no
\* observer notification is made after it, the chunks emitted before it stay
\* emitted, no further fragment is requested, and a completion call in
\* streaming mode returns no text, not even the partial one.
C14_TransportErrorPropagates ==
  /\ [](Failed => (pc = "failed" /\ raised = transport_error /\ result = None))
  /\ [][Failed' =>
          /\ yielded' = yielded
          /\ tokens' = tokens
          /\ pos' = pos
          /\ Failed => (requests' = requests /\ pc' = pc /\ raised' = raised)]_vars

\* A completion call in streaming mode fails while fetching the second
\* fragment, after one chunk was emitted and notified; nothing is returned.
C14_Witness ==
  /\ op \in CallOps /\ streaming /\ pc = "failed"
  /\ pos = 1 /\ Len(upstream) = 2
  /\ yielded = <<upstream[1]>> /\ tokens = yielded /\ completion = upstream[1]
  /\ upstream[1] # <<>> /\ result = None

\* ------------------------------------------------------------- requests
\* The call is over: returned, generator finished or abandoned, or failed.
Over == pc \in {"done", "returned", "cancelled", "failed"}

\* C16: every call of a public operation hands the transport exactly one
\* request, whatever its outcome: a generate request for a completion with
\* streaming off, a stream request for a streaming call and for a completion
\* with streaming on; no request is repeated after an error or a stop match.
C16_OneRequestPerCall ==
  /\ Len(requests) <= 1
  /\ Over => Len(requests) = 1
  /\ \A i \in 1..Len(requests) : requests[i].stream = Decoding

\* A completion with streaming on has returned at a stop match with a fragment
\* left at the transport: one stream request was made.
C16_Witness ==
  /\ pc = "returned" /\ Len(requests) = 1 /\ requests[1].stream
  /\ pos < Len(upstream)
  /\ Truthy(stop_seq_found)

\* ------------------------------------------------------------- configuration
\* The stop list and the overrides of every request of the frame f come from
\* the configuration and from f's own arguments: the configured entries (once,
\* or twice when a completion has handed them to the decoder) and then f's own
\* runtime entries; f's own override of the temperature, or the default.
BuiltFromOwnArguments(f) ==
  \A i \in 1..Len(f.requests) :
    LET params == f.requests[i].params
        own == IF f.stop = None THEN <<>> ELSE f.stop[1]
    IN /\ params["stop"] \in {stop_sequences \o own,
                              stop_sequences \o stop_sequences \o own}
       /\ params["temperature"] =
            (IF "temperature" \in DOMAIN f.kwargs
             THEN f.kwargs["temperature"] ELSE "0.8")

\* C15: whatever calls are made on one client, streaming and completion calls
\* with different runtime stop lists and overrides, one after the other or
\* interleaved, no step changes the configured stop_sequences, extra
\* parameters or streaming flag, and the parameters each call hands to the
\* transport are built from the configuration and that call's own runtime stop
\* list and overrides, never from another call's.
C15_ConfigurationIsNotMutated ==
  /\ [][/\ stop_sequences' = stop_sequences
        /\ model_kwargs' = model_kwargs
        /\ streaming' = streaming]_vars
  /\ [](BuiltFromOwnArguments(Frame) /\ BuiltFromOwnArguments(parked))

\* A streaming call is suspended after its first chunk while a completion call
\* with another runtime stop list and another override awaits its response;
\* both have made their request.
C15_Witness ==
  /\ calls = 2
  /\ op \in StreamOps /\ pc = "suspended" /\ requests # <<>>
  /\ parked.op \in CallOps /\ parked.pc = "await" /\ parked.requests # <<>>
  /\ stop # parked.stop /\ stop # Some(<<>>) /\ parked.stop # Some(<<>>)
  /\ kwargs # parked.kwargs
  /\ stop_sequences # <<>>

\* ------------------------------------------------------------- empty texts
\* The stop sequence selected in t (the last listed of those occurring) has its
\* first occurrence at the very start of t.
SelectedAtZero(t) ==
  AnyStopIn(t) /\ MinOf(Offsets(Merged[MaxOf(OccurringIn(t))], t)) = 0

\* Fragment i has a text to emit.
Productive(i) == upstream[i] # <<>> /\ ~SelectedAtZero(upstream[i])
ProductiveUpTo(n) == Cardinality({i \in 1..n : Productive(i)})

\* C17: every chunk emitted has a non-empty text; a fragment that is empty, or
\* whose selected stop sequence starts at offset 0, gives no chunk and no
\* observer notification, and in the second case the stream still ends at that
\* fragment.
C17_NoEmptyChunk ==
  Requested =>
    /\ \A i \in 1..Len(yielded) : yielded[i] # <<>>
    /\ \A i \in 1..Len(tokens) : tokens[i] # <<>>
    /\ Len(yielded) = ProductiveUpTo(Delivered)
    /\ Len(tokens) = (IF run_manager
                      THEN ProductiveUpTo(IF pc = "chunk" THEN pos - 1 ELSE pos)
                      ELSE 0)
    /\ (pos > 0 /\ ~Productive(pos)) => ~InBody
    /\ (pos > 0 /\ SelectedAtZero(upstream[pos])) => pc = "done"

\* The first fragment starts with the selected stop sequence: the stream has
\* ended there without a chunk or a notification, a fragment being left.
C17_Witness ==
  /\ Requested /\ run_manager /\ pc = "done"
  /\ pos = 1 /\ Len(upstream) = 2
  /\ SelectedAtZero(upstream[1]) /\ Len(upstream[1]) > Len(stop_seq_found[1])
  /\ yielded = <<>> /\ tokens = <<>>

\* ------------------------------------------------------------- one more stop
\* The merged list without its last entry, and the output of a direct stream
\* over the same fragments with that shorter list.
ShorterList == SubSeq(Merged, 1, Len(Merged) - 1)
OutputWithShorterList == Concat(StreamRun(ShorterList, upstream).chunks)

\* C18: adding a stop sequence never lengthens the streamed output: for every
\* sequence of fragments, every stop list L and every further non-empty stop
\* sequence s, the concatenation of the chunks emitted with L followed by s is
\* a prefix of the concatenation of the chunks emitted with L.
C18_AddedStopNeverLengthens ==
  (op \in StreamOps /\ pc = "done" /\ Merged # <<>>) =>
    IsPrefixOf(Concat(yielded), OutputWithShorterList)

\* ------------------------------------------------------------- trimmed text
EndsWithSomeStop(t) == \E i \in 1..Len(Merged) : EndsWith(t, Merged[i])

\* C19 as stated: the text a non-streaming completion returns never ends with
\* a sequence of the merged stop list, whatever the response and the order of
\* the list; trimming the returned text again changes nothing.
C19_ReturnedNeverEndsWithStop ==
  NonStreamingReturned =>
    /\ ~EndsWithSomeStop(result[1])
    /\ Walked(result[1], Merged, Len(Merged)) = result[1]

\* C19: the text a non-streaming completion returns is a prefix of the
\* response, and it ends with no sequence of the merged stop list whenever the
\* trim has removed nothing; a text from which a sequence was removed may end
\* with a listed sequence again.
C19_UntrimmedEndsWithNoStop ==
  NonStreamingReturned =>
    /\ IsPrefixOf(result[1], Response)
    /\ result[1] = Response => ~EndsWithSomeStop(result[1])

\* A response holding a listed sequence, but not at its end, came back whole.
C19_Witness ==
  /\ NonStreamingReturned
  /\ result = Some(Response) /\ Len(Response) >= 2
  /\ \E i \in 1..Len(Merged) : Occurs(Merged[i], Response)

====
